---- MODULE Spec2Model ----
(***************************************************************************)
(* Model of the WYSIWYG math editor of src/electron/main.cjs: the document *)
(* tree under #editor, the selection, the two debounce timers, the Active  *)
(* Edit State and the handlers that act on them.                           *)
(*                                                                         *)
(* A string is a sequence of one-character strings.  A node is a record    *)
(* [kind, tag, id, val, disp, kids]: a text node holds its nodeValue in    *)
(* val, a math token (span.math-token) holds data-tex in val, data-display *)
(* in disp and its text content in kids, an element child of #editor holds *)
(* its tag name in tag and its children in kids.                           *)
(***************************************************************************)
EXTENDS Integers, Sequences, FiniteSets, TLC

\* ------------------------------------------------------------------ bounds

\* Longest stored text the pass is explored over.
MaxLen == 7

\* ------------------------------------------------------------- characters

DOLLAR == "$"
NL == "\n"
SP == " "
Chars == {DOLLAR, "x", SP, NL}

\* String.prototype.trim() strips these.
IsSpace(c) == c \in {SP, NL}

RECURSIVE TrimLeft(_)
TrimLeft(s) ==
  IF s # <<>> /\ IsSpace(Head(s)) THEN TrimLeft(Tail(s)) ELSE s

RECURSIVE TrimRight(_)
TrimRight(s) ==
  IF s # <<>> /\ IsSpace(s[Len(s)]) THEN TrimRight(SubSeq(s, 1, Len(s) - 1)) ELSE s

\* A trim that keeps the white space.
NoTrim(s) == s

Trim(s) == TrimRight(TrimLeft(s))

\* ---------------------------------------------------------------- scanner
\* /(\$\$([\s\S]+?)\$\$)|(\$([^$\n]+?)\$)/g, positions 1-based.

\* First alternative at i: "$$", a lazy non-empty body of any characters, "$$".
\* The set of positions j at which the closing "$$" may start.
BlockCloses(s, i) ==
  IF i + 1 <= Len(s) /\ s[i] = DOLLAR /\ s[i + 1] = DOLLAR
  THEN {j \in (i + 3)..(Len(s) - 1) : s[j] = DOLLAR /\ s[j + 1] = DOLLAR}
  ELSE {}

\* Second alternative at i: "$", a lazy non-empty body without "$" or newline, "$".
InlineCloses(s, i) ==
  IF i <= Len(s) /\ s[i] = DOLLAR
  THEN {j \in (i + 2)..Len(s) :
          /\ s[j] = DOLLAR
          /\ \A k \in (i + 1)..(j - 1) : s[k] \notin {DOLLAR, NL}}
  ELSE {}

Min(S) == CHOOSE m \in S : \A n \in S : m <= n
Max(S) == CHOOSE m \in S : \A n \in S : m >= n

NoMatch == [start |-> 0, end |-> 0, block |-> FALSE, body |-> <<>>]

\* A match at position i that runs to the last closing delimiter.
MatchAtGreedy(s, i) ==
  LET First(blockCloses, inlineCloses) ==
        IF blockCloses # {}
        THEN [start |-> i, end |-> Max(blockCloses) + 1, block |-> TRUE,
              body |-> SubSeq(s, i + 2, Max(blockCloses) - 1)]
        ELSE IF inlineCloses # {}
        THEN [start |-> i, end |-> Max(inlineCloses), block |-> FALSE,
              body |-> SubSeq(s, i + 1, Max(inlineCloses) - 1)]
        ELSE NoMatch
  IN First(BlockCloses(s, i), InlineCloses(s, i))

\* The match the regex finds at position i, the first alternative first.
MatchAt(s, i) ==
  LET First(blockCloses, inlineCloses) ==
        IF blockCloses # {}
        THEN [start |-> i, end |-> Min(blockCloses) + 1, block |-> TRUE,
              body |-> SubSeq(s, i + 2, Min(blockCloses) - 1)]
        ELSE IF inlineCloses # {}
        THEN [start |-> i, end |-> Min(inlineCloses), block |-> FALSE,
              body |-> SubSeq(s, i + 1, Min(inlineCloses) - 1)]
        ELSE NoMatch
  IN First(BlockCloses(s, i), InlineCloses(s, i))

\* regex.exec(value) with regex.lastIndex = from - 1: the leftmost match at or
\* after from.
RegexExec(s, from) ==
  LET Leftmost(starts) == IF starts = {} THEN NoMatch ELSE MatchAt(s, Min(starts))
  IN Leftmost({i \in from..Len(s) : MatchAt(s, i) # NoMatch})

\* regex.test(text) of the first loop of runMathPass.
RegexTest(s) == RegexExec(s, 1) # NoMatch

\* ------------------------------------------------------------------- nodes

TextNode(id, val) ==
  [kind |-> "text", tag |-> "", id |-> id, val |-> val, disp |-> FALSE, kids |-> <<>>]

\* katex.renderToString(tex, {throwOnError: false, ...}) throws: the engine
\* is taken to fail on the expressions that hold "!".
RenderThrows(tex) == \E i \in 1..Len(tex) : tex[i] = "!"

\* A token whose content stays empty when the engine fails.
createMathTokenWithoutFallback(tex, displayMode) ==
  [kind |-> "tok", tag |-> "span", id |-> 0, val |-> tex, disp |-> displayMode,
   kids |-> <<>>]

\* createMathToken(tex, displayMode): a span.math-token with data-tex and
\* data-display.  Its content is the engine's markup, which holds no text of
\* the document (kids empty), or, when the engine throws, the raw form as text.
createMathToken(tex, displayMode) ==
  [kind |-> "tok", tag |-> "span", id |-> 0, val |-> tex, disp |-> displayMode,
   kids |-> IF RenderThrows(tex)
            THEN <<TextNode(0, IF displayMode
                               THEN <<DOLLAR, DOLLAR>> \o tex \o <<DOLLAR, DOLLAR>>
                               ELSE <<DOLLAR>> \o tex \o <<DOLLAR>>)>>
            ELSE <<>>]

\* An element child of #editor with the given tag name.
Element(tag, id, kids) ==
  [kind |-> "block", tag |-> tag, id |-> id, val |-> <<>>, disp |-> FALSE, kids |-> kids]
BlockNode(id, kids) == Element("p", id, kids)

isMathTokenNode(n) == n.kind = "tok"

\* mathRawForToken(token): tex, display, delimiterSize and the raw delimited form.
mathRawForToken(token) ==
  LET d == IF token.disp THEN <<DOLLAR, DOLLAR>> ELSE <<DOLLAR>>
  IN [tex |-> token.val, display |-> token.disp,
      delimiterSize |-> IF token.disp THEN 2 ELSE 1,
      raw |-> d \o token.val \o d]

\* The selection: rangeCount = 0 ("none"), a collapsed caret anchored outside
\* the editor ("out"), in a text node (node = its id, off = offset) or in an
\* element (node = the block's id, 0 for #editor itself; off = child index).
NoSel == [kind |-> "none", node |-> 0, off |-> 0]
OutSel == [kind |-> "out", node |-> 0, off |-> 0]
TextSel(id, off) == [kind |-> "text", node |-> id, off |-> off]
ElemSel(id, off) == [kind |-> "elem", node |-> id, off |-> off]
EditorId == 0

\* ---------------------------------------------------------- tree look-ups

SeqIdx(s) == 1..Len(s)

\* The longest child list of the tree.
MaxNodes(ed) == Max({Len(ed)} \cup {Len(ed[t].kids) : t \in SeqIdx(ed)})

RECURSIVE TextIdsOf(_)
\* The ids of the editable text nodes (the text inside a token has none).
TextIdsOf(nodes) ==
  IF nodes = <<>> THEN {}
  ELSE LET h == Head(nodes)
       IN (IF h.kind = "text" THEN {h.id}
           ELSE IF h.kind = "tok" THEN {}
           ELSE TextIdsOf(h.kids)) \cup TextIdsOf(Tail(nodes))

\* editor.contains(textNode)
Contains(ed, id) == id # 0 /\ id \in TextIdsOf(ed)

BlockIdx(ed, b) == CHOOSE t \in SeqIdx(ed) : ed[t].kind = "block" /\ ed[t].id = b

\* The children of the element a selection is anchored in.
KidsOf(ed, e) == IF e = EditorId THEN ed ELSE ed[BlockIdx(ed, e)].kids

\* Where text node id sits: <<t, i>> is child i of top-level node t, <<t, 0>>
\* is top-level node t itself.
TextLoc(ed, id) ==
  CHOOSE p \in (SeqIdx(ed) \X (0..MaxNodes(ed))) :
    \/ p[2] = 0 /\ ed[p[1]].kind = "text" /\ ed[p[1]].id = id
    \/ /\ p[2] \in SeqIdx(ed[p[1]].kids)
       /\ ed[p[1]].kids[p[2]].kind = "text"
       /\ ed[p[1]].kids[p[2]].id = id

TextVal(ed, id) ==
  LET p == TextLoc(ed, id)
  IN IF p[2] = 0 THEN ed[p[1]].val ELSE ed[p[1]].kids[p[2]].val

\* The parent element of text node id and its index among the siblings.
ParentOf(ed, id) ==
  LET p == TextLoc(ed, id) IN IF p[2] = 0 THEN EditorId ELSE ed[p[1]].id
IndexOf(ed, id) ==
  LET p == TextLoc(ed, id) IN IF p[2] = 0 THEN p[1] ELSE p[2]

\* ------------------------------------------------------ the editor's state

VARIABLES
  editor,          \* the children of #editor: blocks and top-level text nodes
  sel,             \* window.getSelection()
  activeMathEdit,  \* the id of activeMathEdit.textNode, 0 for null
  mathPassTimer,   \* the handle in mathPassTimer, 0 for null
  saveTimer,       \* the handle in saveTimer, 0 for null
  timers,          \* the host's pending timeouts: [id, fn, aggressive]
  previewHidden,   \* mathPreview.hidden
  selPending,      \* a selectionchange event is queued
  budget,          \* how many more times the host inserts text in this run
  ev               \* the handler that ran last and what it did

vars == <<editor, sel, activeMathEdit, mathPassTimer, saveTimer, timers,
          previewHidden, selPending, budget, ev>>

\* The state a handler works on, threaded through the functions it calls.
Cur ==
  [editor |-> editor, sel |-> sel, activeMathEdit |-> activeMathEdit,
   mathPassTimer |-> mathPassTimer, saveTimer |-> saveTimer, timers |-> timers,
   previewHidden |-> previewHidden]

\* ----------------------------------------------------------------- timers

\* A timeout is named by its callback and a number; setTimeout returns a
\* handle that no pending timeout has (the variable that kept an older handle
\* is overwritten with the new one at once).
NewTimerId(ts, fn) ==
  Min({i \in 1..(Cardinality(ts) + 1) : \A t \in ts : ~(t.fn = fn /\ t.id = i)})

\* clearTimeout(handle) for a handle of callback fn.
ClearTimeout(ts, fn, handle) == {t \in ts : ~(t.fn = fn /\ t.id = handle)}

SetTimeout(ts, fn, aggressive) ==
  ts \cup {[id |-> NewTimerId(ts, fn), fn |-> fn, aggressive |-> aggressive]}

scheduleSave(st) ==
  LET cleared == ClearTimeout(st.timers, "save", st.saveTimer)
  IN [st EXCEPT !.timers = SetTimeout(cleared, "save", FALSE),
                !.saveTimer = NewTimerId(cleared, "save")]

\* A scheduleMathPass that leaves the pending timeout armed.
scheduleMathPassKeepingPending(st, aggressive) ==
  [st EXCEPT !.timers = SetTimeout(st.timers, "pass", aggressive),
             !.mathPassTimer = NewTimerId(st.timers, "pass")]

scheduleMathPass(st, aggressive) ==
  LET cleared == ClearTimeout(st.timers, "pass", st.mathPassTimer)
  IN [st EXCEPT !.timers = SetTimeout(cleared, "pass", aggressive),
                !.mathPassTimer = NewTimerId(cleared, "pass")]

\* ---------------------------------------------------------------- preview

\* getCollapsedEditorRange(): the selection when it is a caret in the editor.
getCollapsedEditorRange(st) == st.sel.kind \in {"text", "elem"}

RECURSIVE SnippetFrom(_, _, _)
\* The loop of getActiveMathSnippet from position `from`: the first match whose
\* span [start, end] holds the cursor (0-based offsets), or NoMatch.
SnippetFrom(value, cursor, from) ==
  LET Try(m) ==
        IF m = NoMatch THEN NoMatch
        ELSE IF cursor >= m.start - 1 /\ cursor <= m.end THEN m
        ELSE SnippetFrom(value, cursor, m.end + 1)
  IN Try(RegexExec(value, from))

getActiveMathSnippet(st) ==
  IF ~getCollapsedEditorRange(st) \/ st.sel.kind # "text" THEN NoMatch
  ELSE LET value == TextVal(st.editor, st.sel.node)
       IN IF \A i \in SeqIdx(value) : value[i] # DOLLAR THEN NoMatch
          ELSE SnippetFrom(value, st.sel.off, 1)

hideMathPreview(st) == [st EXCEPT !.previewHidden = TRUE]

updateMathPreview(st) ==
  LET Show(snippet) ==
        IF snippet = NoMatch \/ Trim(snippet.body) = <<>>
        THEN hideMathPreview(st)
        ELSE [st EXCEPT !.previewHidden = FALSE]
  IN Show(getActiveMathSnippet(st))

\* ------------------------------------------------------ reconciliation pass

\* currentSelectionTextNode(): the anchor when it is a text node, else the
\* anchor's first child; 0 when there is none or it is no text node of the editor.
currentSelectionTextNode(st) ==
  CASE st.sel.kind = "text" -> st.sel.node
    [] st.sel.kind = "elem" ->
         LET kids == KidsOf(st.editor, st.sel.node)
         IN IF kids # <<>> /\ kids[1].kind = "text" THEN kids[1].id ELSE 0
    [] OTHER -> 0

\* A first loop that does not skip the caret's text node.
ToReplaceAnyNode(n, aggressive, activeTextNode) ==
  /\ n.kind = "text"
  /\ \E i \in SeqIdx(n.val) : n.val[i] = DOLLAR
  /\ RegexTest(n.val)

\* The test that lets every element's text through.
SkippedNever(h) == FALSE

\* parent.closest(".math-token, code, pre, script, style") for the text nodes
\* whose parent is h.
Skipped(h) == h.kind = "tok" \/ h.tag \in {"code", "pre", "script", "style"}

\* The same for the text nodes whose parent is element e of the tree.
InSkipped(ed, e) == e # EditorId /\ Skipped(ed[BlockIdx(ed, e)])

\* The first loop of runMathPass: whether a text node that is in none of the
\* skipped elements is pushed on toReplace.
ToReplace(n, aggressive, activeTextNode) ==
  /\ n.kind = "text"
  /\ ~(~aggressive /\ activeTextNode # 0 /\ n.id = activeTextNode)
  /\ \E i \in SeqIdx(n.val) : n.val[i] = DOLLAR
  /\ RegexTest(n.val)

RECURSIVE FragmentFrom(_, _)
\* The second loop's body for one node: the fragment built from nodeValue,
\* scanning from position last + 1.  New text nodes have id 0 until inserted.
FragmentFrom(value, last) ==
  LET Pieces(m) ==
        IF m = NoMatch
        THEN IF last < Len(value)
             THEN <<TextNode(0, SubSeq(value, last + 1, Len(value)))>>
             ELSE <<>>
        ELSE (IF m.start - 1 > last
              THEN <<TextNode(0, SubSeq(value, last + 1, m.start - 1))>>
              ELSE <<>>)
             \o <<IF Len(Trim(m.body)) > 0
                  THEN createMathToken(Trim(m.body), m.block)
                  ELSE TextNode(0, SubSeq(value, m.start, m.end))>>
             \o FragmentFrom(value, m.end)
  IN Pieces(RegexExec(value, last + 1))

\* A second loop that stops after the first match of a node.
FragmentFirstMatchOnly(value) ==
  LET First(m) ==
        IF m = NoMatch THEN <<TextNode(0, value)>>
        ELSE (IF m.start > 1 THEN <<TextNode(0, SubSeq(value, 1, m.start - 1))>> ELSE <<>>)
             \o <<IF Len(Trim(m.body)) > 0
                  THEN createMathToken(Trim(m.body), m.block)
                  ELSE TextNode(0, SubSeq(value, m.start, m.end))>>
             \o (IF m.end < Len(value)
                 THEN <<TextNode(0, SubSeq(value, m.end + 1, Len(value)))>> ELSE <<>>)
  IN First(RegexExec(value, 1))

\* A fragment that leaves out the text after the last match.
FragmentWithoutTail(value) ==
  LET Cut(f) ==
        IF Len(f) > 1 /\ f[Len(f)].kind = "text" THEN SubSeq(f, 1, Len(f) - 1) ELSE f
  IN Cut(FragmentFrom(value, 0))

Fragment(value) == FragmentFrom(value, 0)

RECURSIVE ReplaceAll(_, _, _)
\* node.replaceWith(fragment) for every node of toReplace, in tree order.
ReplaceAll(nodes, aggressive, activeTextNode) ==
  IF nodes = <<>> THEN <<>>
  ELSE LET h == Head(nodes)
           rest == ReplaceAll(Tail(nodes), aggressive, activeTextNode)
       IN IF ToReplace(h, aggressive, activeTextNode) THEN Fragment(h.val) \o rest
          ELSE IF h.kind # "text" /\ ~Skipped(h)
          THEN <<[h EXCEPT !.kids = ReplaceAll(h.kids, aggressive, activeTextNode)]>> \o rest
          ELSE <<h>> \o rest

RECURSIVE OffsetAfter(_, _, _, _, _)
\* A live range boundary (parent, k) under the replacements among parent's
\* children `kids`, the first of them now at index i: removing child j moves a
\* boundary behind it one down, inserting the fragment at j moves a boundary
\* beyond j up by the fragment's length.
OffsetAfter(kids, i, k, aggressive, activeTextNode) ==
  IF kids = <<>> \/ k <= i THEN k
  ELSE LET Shift(m) ==
             IF m < 0 THEN OffsetAfter(Tail(kids), i + 1, k, aggressive, activeTextNode)
             ELSE IF k = i + 1 THEN i
             ELSE OffsetAfter(Tail(kids), i + m, k - 1 + m, aggressive, activeTextNode)
       IN Shift(IF ToReplace(Head(kids), aggressive, activeTextNode)
                THEN Len(Fragment(Head(kids).val)) ELSE -1)

RECURSIVE IndexAfter(_, _, _, _)
\* The index (0-based) child number i (1-based) of `kids` has after the
\* replacements among the children before it.
IndexAfter(kids, i, aggressive, activeTextNode) ==
  IF i <= 1 THEN 0
  ELSE (IF ToReplace(Head(kids), aggressive, activeTextNode)
        THEN Len(Fragment(Head(kids).val)) ELSE 1)
       + IndexAfter(Tail(kids), i - 1, aggressive, activeTextNode)

\* The selection after the replacements: a caret in a removed text node moves
\* to (parent, index of the node), a caret in an element follows its children,
\* a caret in a skipped element stays.
SelAfterPass(st, aggressive, activeTextNode) ==
  LET ed == st.editor
      s == st.sel
      Moved(p) ==
        IF ToReplace(IF p[2] = 0 THEN ed[p[1]] ELSE ed[p[1]].kids[p[2]],
                     aggressive, activeTextNode)
        THEN IF p[2] = 0
             THEN ElemSel(EditorId, IndexAfter(ed, p[1], aggressive, activeTextNode))
             ELSE ElemSel(ed[p[1]].id,
                          IndexAfter(ed[p[1]].kids, p[2], aggressive, activeTextNode))
        ELSE s
  IN CASE s.kind = "text" ->
            IF InSkipped(ed, ParentOf(ed, s.node)) THEN s ELSE Moved(TextLoc(ed, s.node))
       [] s.kind = "elem" ->
            IF InSkipped(ed, s.node) THEN s
            ELSE ElemSel(s.node,
                         OffsetAfter(KidsOf(ed, s.node), 0, s.off, aggressive, activeTextNode))
       [] OTHER -> s

RECURSIVE FreeIds(_, _, _)
\* The n smallest ids from i on that are not in used, in order.
FreeIds(used, n, i) ==
  IF n = 0 THEN <<>>
  ELSE IF i \in used THEN FreeIds(used, n, i + 1)
  ELSE <<i>> \o FreeIds(used, n - 1, i + 1)

RECURSIVE NewCount(_)
\* The text nodes of the sequence that have no id yet.
NewCount(nodes) ==
  IF nodes = <<>> THEN 0
  ELSE LET h == Head(nodes)
       IN (IF h.kind = "text" THEN (IF h.id = 0 THEN 1 ELSE 0)
           ELSE IF h.kind = "tok" THEN 0
           ELSE NewCount(h.kids)) + NewCount(Tail(nodes))

RECURSIVE Identify(_, _)
\* document.createTextNode: every new text node is an object of its own.
Identify(nodes, free) ==
  IF nodes = <<>> THEN <<>>
  ELSE LET h == Head(nodes)
       IN IF h.kind = "text" /\ h.id = 0
          THEN <<[h EXCEPT !.id = Head(free)]>> \o Identify(Tail(nodes), Tail(free))
          ELSE IF h.kind = "block"
          THEN <<[h EXCEPT !.kids = Identify(h.kids, free)]>>
               \o Identify(Tail(nodes), SubSeq(free, NewCount(h.kids) + 1, Len(free)))
          ELSE <<h>> \o Identify(Tail(nodes), free)

\* The tree with its new text nodes given ids that no node of `old` and no
\* kept reference has.
WithNewNodes(nodes, old, kept) ==
  Identify(nodes, FreeIds(TextIdsOf(old) \cup {kept}, NewCount(nodes), 1))

runMathPass(st, aggressive) ==
  LET activeTextNode == IF aggressive THEN 0 ELSE currentSelectionTextNode(st)
      Replaced(ed) ==
        [st EXCEPT !.editor = ed,
                   !.sel = SelAfterPass(st, aggressive, activeTextNode),
                   !.activeMathEdit =
                      IF st.activeMathEdit # 0 /\ ~Contains(ed, st.activeMathEdit)
                      THEN 0 ELSE st.activeMathEdit]
  IN updateMathPreview(scheduleSave(
       Replaced(WithNewNodes(ReplaceAll(st.editor, aggressive, activeTextNode),
                             st.editor, st.activeMathEdit))))

\* ------------------------------------------------------- widget life cycle

SetKids(ed, e, kids) ==
  IF e = EditorId THEN kids ELSE [ed EXCEPT ![BlockIdx(ed, e)].kids = kids]

ReplaceAt(kids, i, new) == SubSeq(kids, 1, i - 1) \o new \o SubSeq(kids, i + 1, Len(kids))

\* A token is named by its parent element and its (1-based) index in it.
NoToken == [parent |-> 0, idx |-> 0]
TokenAt(ed, tk) == KidsOf(ed, tk.parent)[tk.idx]

\* setCaret(node, offset): a caret in the text node, the offset clamped.
setCaret(st, id, offset) ==
  LET len == Len(TextVal(st.editor, id))
  IN [st EXCEPT !.sel = TextSel(id, IF offset < 0 THEN 0 ELSE IF offset > len THEN len ELSE offset)]

\* expandMathTokenWithOffset(token, offset); the new text node is the one
\* st.activeMathEdit names on return.
expandMathTokenWithOffset(st, tk, offset) ==
  LET raw == mathRawForToken(TokenAt(st.editor, tk)).raw
      boundedOffset == IF offset < 0 THEN 0 ELSE IF offset > Len(raw) THEN Len(raw) ELSE offset
      Replace(id) ==
        [setCaret([st EXCEPT !.editor =
                     SetKids(st.editor, tk.parent,
                             ReplaceAt(KidsOf(st.editor, tk.parent), tk.idx,
                                       <<TextNode(id, raw)>>))],
                  id, boundedOffset)
         EXCEPT !.activeMathEdit = id]
  IN scheduleSave(updateMathPreview(
       Replace(Head(FreeIds(TextIdsOf(st.editor) \cup {st.activeMathEdit}, 1, 1)))))

\* A boundary edit that puts the caret at the edge of the raw text.
expandMathTokenAtEdge(st, tk, fromSide) ==
  expandMathTokenWithOffset(st, tk,
    IF fromSide = "from-left" THEN 0
    ELSE Len(mathRawForToken(TokenAt(st.editor, tk)).raw))

expandMathTokenForBoundaryEdit(st, tk, fromSide) ==
  LET r == mathRawForToken(TokenAt(st.editor, tk))
      offset == IF fromSide = "from-left" THEN r.delimiterSize
                ELSE Len(r.raw) - r.delimiterSize
  IN expandMathTokenWithOffset(st, tk, offset)

\* The click's horizontal position within the token's box is num / ClickDen of
\* its width (below 0 and above ClickDen: outside the box).
ClickDen == 2

\* A rounding that drops the fraction.
RoundDown(a, b) == a \div b

\* Math.round(x) for x = a / b, b > 0.
Round(a, b) == (2 * a + b) \div (2 * b)

\* expandMathTokenForEdit(token, clickX) with (clickX - rect.left) / rect.width
\* = num / ClickDen, for a token whose box has a width (rect.width > 0).
expandMathTokenForEdit(st, tk, num) ==
  LET raw == mathRawForToken(TokenAt(st.editor, tk)).raw
      ratioNum == IF num < 0 THEN 0 ELSE IF num > ClickDen THEN ClickDen ELSE num
      offset == Round(ratioNum * Len(raw), ClickDen)
  IN expandMathTokenWithOffset(st, tk, offset)

\* finalizeMathEditIfNeeded()
finalizeMathEditIfNeeded(st) ==
  IF st.activeMathEdit = 0 THEN st
  ELSE IF /\ st.sel.kind # "none"
          /\ Contains(st.editor, st.activeMathEdit)
          /\ st.sel.kind = "text"
          /\ st.sel.node = st.activeMathEdit
  THEN st
  ELSE runMathPass([st EXCEPT !.activeMathEdit = 0], TRUE)

\* -------------------------------------------------------------- navigator

RECURSIVE adjacentSignificantSibling(_, _, _)
\* The index of the nearest sibling of child i in the direction that is not a
\* zero-length text node; 0 when there is none.
adjacentSignificantSibling(kids, i, direction) ==
  LET j == IF direction = "next" THEN i + 1 ELSE i - 1
  IN IF j < 1 \/ j > Len(kids) THEN 0
     ELSE IF kids[j].kind = "text" /\ Len(kids[j].val) = 0
     THEN adjacentSignificantSibling(kids, j, direction)
     ELSE j

\* adjacentMathToken(range, direction) for the caret of st.
adjacentMathToken(st, direction) ==
  LET ed == st.editor
      s == st.sel
  IN IF s.kind = "text"
     THEN LET text == TextVal(ed, s.node)
              boundaryOffset == IF direction = "next" THEN Len(text) ELSE 0
              kids == KidsOf(ed, ParentOf(ed, s.node))
              j == adjacentSignificantSibling(kids, IndexOf(ed, s.node), direction)
          IN IF s.off # boundaryOffset THEN NoToken
             ELSE IF j # 0 /\ isMathTokenNode(kids[j])
             THEN [parent |-> ParentOf(ed, s.node), idx |-> j]
             ELSE NoToken
     ELSE IF s.kind = "elem"
     THEN LET kids == KidsOf(ed, s.node)
              j == IF direction = "next" THEN s.off + 1 ELSE s.off
          IN IF j >= 1 /\ j <= Len(kids) /\ isMathTokenNode(kids[j])
             THEN [parent |-> s.node, idx |-> j]
             ELSE NoToken
     ELSE NoToken

\* nearestEditorChild(range.startContainer): the id of the top-level block the
\* caret is in, 0 when the caret is anchored in #editor or a top-level text node.
nearestEditorChild(st) ==
  CASE st.sel.kind = "text" -> ParentOf(st.editor, st.sel.node)
    [] st.sel.kind = "elem" -> st.sel.node
    [] OTHER -> 0

\* A nextEditorChild that does not skip blank text.
nextSiblingOnly(ed, t) == IF t + 1 > Len(ed) THEN 0 ELSE t + 1

RECURSIVE nextEditorChild(_, _)
\* The index of the next top-level sibling of node t that is not a blank text
\* node; 0 when there is none.
nextEditorChild(ed, t) ==
  IF t + 1 > Len(ed) THEN 0
  ELSE IF ed[t + 1].kind = "text" /\ Trim(ed[t + 1].val) = <<>>
  THEN nextEditorChild(ed, t + 1)
  ELSE t + 1

RECURSIVE previousEditorChild(_, _)
previousEditorChild(ed, t) ==
  IF t - 1 < 1 THEN 0
  ELSE IF ed[t - 1].kind = "text" /\ Trim(ed[t - 1].val) = <<>>
  THEN previousEditorChild(ed, t - 1)
  ELSE t - 1

\* compareBoundaryPoints(...) === 0 against the collapsed probe (container, 0):
\* two boundary points are equal only when they have the same container and
\* the same offset, so a caret at offset 0 of the block's first text node is not
\* at the container's start.
isRangeAtContainerStart(st, b) ==
  st.sel.kind = "elem" /\ st.sel.node = b /\ st.sel.off = 0

\* The same against the probe (container, childNodes.length).
isRangeAtContainerEnd(st, b) ==
  st.sel.kind = "elem" /\ st.sel.node = b /\ st.sel.off = Len(KidsOf(st.editor, b))

RemoveAt(s, i) == SubSeq(s, 1, i - 1) \o SubSeq(s, i + 1, Len(s))

\* ------------------------------------------------------------ block merge

\* mergeWithNextEditorBlock(): the state it leaves and what it returns.
mergeWithNextEditorBlock(st) ==
  LET ed == st.editor
      current == nearestEditorChild(st)
  IN IF ~getCollapsedEditorRange(st) THEN [st |-> st, ret |-> FALSE]
     ELSE IF current = 0 \/ ~isRangeAtContainerEnd(st, current) THEN [st |-> st, ret |-> FALSE]
     ELSE LET c == BlockIdx(ed, current)
              n == nextEditorChild(ed, c)
          IN IF n = 0 \/ ed[n].kind # "block" THEN [st |-> st, ret |-> FALSE]
             ELSE IF ed[n].kids = <<>>
             THEN [st |-> [st EXCEPT !.editor = RemoveAt(ed, n)], ret |-> FALSE]
             ELSE LET merged == [ed EXCEPT ![c].kids = ed[c].kids \o ed[n].kids]
                      st1 == [st EXCEPT !.editor = RemoveAt(merged, n),
                                        \* setCaretBeforeReferenceNode(current, firstMoved)
                                        !.sel = ElemSel(current, Len(ed[c].kids))]
                  IN [st |-> scheduleSave(st1), ret |-> TRUE]

\* mergeWithPreviousEditorBlock(): the state it leaves and what it returns.
mergeWithPreviousEditorBlock(st) ==
  LET ed == st.editor
      current == nearestEditorChild(st)
  IN IF ~getCollapsedEditorRange(st) THEN [st |-> st, ret |-> FALSE]
     ELSE IF current = 0 \/ ~isRangeAtContainerStart(st, current) THEN [st |-> st, ret |-> FALSE]
     ELSE LET c == BlockIdx(ed, current)
              p == previousEditorChild(ed, c)
          IN IF p = 0 \/ ed[p].kind # "block" THEN [st |-> st, ret |-> FALSE]
             ELSE LET merged == [ed EXCEPT ![p].kids = ed[p].kids \o ed[c].kids]
                      caret ==
                        IF ed[p].kids # <<>>
                        \* rangeAfter.setStartAfter(previousLast)
                        THEN ElemSel(ed[p].id, Len(ed[p].kids))
                        \* setCaretBeforeNode(previous.firstChild || previous)
                        ELSE IF ed[c].kids # <<>> THEN ElemSel(ed[p].id, 0)
                        ELSE ElemSel(EditorId, p - 1)
                      st1 == [st EXCEPT !.editor = RemoveAt(merged, c), !.sel = caret]
                  IN [st |-> scheduleSave(st1), ret |-> TRUE]

\* ------------------------------------------------------ delete into widget

SetTextVal(ed, id, val) ==
  LET p == TextLoc(ed, id)
  IN IF p[2] = 0 THEN [ed EXCEPT ![p[1]].val = val]
     ELSE [ed EXCEPT ![p[1]].kids[p[2]].val = val]

\* A deleteCharInTextNode that deletes nothing.
deleteNoChar(st, id, offset, direction) == st

\* deleteCharInTextNode(textNode, offset, direction)
deleteCharInTextNode(st, id, offset, direction) ==
  LET value == TextVal(st.editor, id)
      at == IF direction = "backward" THEN offset - 1 ELSE offset
  IN IF direction = "backward" /\ offset <= 0 THEN st
     ELSE IF direction # "backward" /\ offset >= Len(value) THEN st
     ELSE updateMathPreview(scheduleSave(
            setCaret([st EXCEPT !.editor =
                        SetTextVal(st.editor, id,
                                   SubSeq(value, 1, at) \o SubSeq(value, at + 2, Len(value)))],
                     id, at)))

\* editAdjacentMathTokenWithDelete(key): the state it leaves and what it returns.
editAdjacentMathTokenWithDelete(st, key) ==
  LET direction == IF key = "Backspace" THEN "prev" ELSE "next"
      Delete(st1) ==
        deleteCharInTextNode(st1, st1.activeMathEdit,
                             IF direction = "prev"
                             THEN Len(TextVal(st1.editor, st1.activeMathEdit)) ELSE 0,
                             IF direction = "prev" THEN "backward" ELSE "forward")
      Edit(token) ==
        IF ~getCollapsedEditorRange(st) \/ token = NoToken THEN [st |-> st, ret |-> FALSE]
        ELSE [st |-> Delete(expandMathTokenWithOffset(st, token,
                       IF direction = "prev"
                       THEN Len(mathRawForToken(TokenAt(st.editor, token)).raw) ELSE 0)),
              ret |-> TRUE]
  IN Edit(adjacentMathToken(st, direction))

\* handleArrowAcrossMathToken(event): the state it leaves and whether it
\* called event.preventDefault().
handleArrowAcrossMathToken(st, key) ==
  LET direction == IF key = "ArrowRight" THEN "next" ELSE "prev"
      Cross(token) ==
        IF key \notin {"ArrowRight", "ArrowLeft"} THEN [st |-> st, ret |-> FALSE]
        ELSE IF ~getCollapsedEditorRange(st) \/ token = NoToken THEN [st |-> st, ret |-> FALSE]
        ELSE [st |-> expandMathTokenForBoundaryEdit(st, token,
                       IF direction = "next" THEN "from-left" ELSE "from-right"),
              ret |-> TRUE]
  IN Cross(adjacentMathToken(st, direction))

\* The keydown listener of the editor: the state it leaves, which branch
\* handled the key and whether the default action was prevented.  The
\* updateMathPreview microtask runs before any other handler.
KeydownListener(st, key) ==
  LET By(r, by) == [st |-> r.st, ret |-> r.ret, by |-> by]
      Handled(r) ==
        [st |-> IF r.by = "token" THEN r.st ELSE updateMathPreview(r.st),
         by |-> IF r.ret THEN r.by ELSE "none", prevented |-> r.ret]
      Arrow(r) ==
        IF r.ret THEN r ELSE By(handleArrowAcrossMathToken(r.st, key), "arrow")
      Previous(r) ==
        IF r.ret \/ key # "Backspace" THEN r
        ELSE By(mergeWithPreviousEditorBlock(r.st), "mergePrev")
      Nxt(r) ==
        IF r.ret \/ key # "Delete" THEN r
        ELSE By(mergeWithNextEditorBlock(r.st), "mergeNext")
      Token(r) ==
        IF key \notin {"Delete", "Backspace"} THEN r
        ELSE By(editAdjacentMathTokenWithDelete(r.st, key), "token")
  IN Handled(Arrow(Previous(Nxt(Token([st |-> st, ret |-> FALSE, by |-> ""])))))

\* ----------------------------------------------------------------- export

\* The replacement of the "mathToken" rule added to turndown.
mathTokenRule(node) ==
  IF node.disp
  THEN <<NL, NL, DOLLAR, DOLLAR, NL>> \o node.val \o <<NL, DOLLAR, DOLLAR, NL, NL>>
  ELSE <<DOLLAR>> \o node.val \o <<DOLLAR>>

RECURSIVE ExportClone(_)
\* exportMarkdown: the clone of the editor with every .math-token replaced by
\* a text node.
ExportClone(nodes) ==
  IF nodes = <<>> THEN <<>>
  ELSE LET h == Head(nodes)
       IN <<IF isMathTokenNode(h)
            THEN TextNode(0, IF h.disp
                             THEN <<DOLLAR, DOLLAR>> \o h.val \o <<DOLLAR, DOLLAR>>
                             ELSE <<DOLLAR>> \o h.val \o <<DOLLAR>>)
            ELSE IF h.kind = "text" THEN h
            ELSE [h EXCEPT !.kids = ExportClone(h.kids)]>>
          \o ExportClone(Tail(nodes))

RECURSIVE Turndown(_)
\* turndown.turndown(html), as far as the tokens and the text go: what is
\* emitted for each token and each text node, in document order.  A token goes
\* through the rule, a text node gives its value (the escaping and the
\* white-space handling of the library are left out).
Turndown(nodes) ==
  IF nodes = <<>> THEN <<>>
  ELSE LET h == Head(nodes)
       IN (IF isMathTokenNode(h) THEN <<mathTokenRule(h)>>
           ELSE IF h.kind = "text" THEN <<h.val>>
           ELSE Turndown(h.kids)) \o Turndown(Tail(nodes))

\* exportMarkdown(): the pieces of the markdown that stand for the tokens and
\* the text nodes of the editor.
exportMarkdown(ed) == Turndown(ExportClone(ed))

\* ------------------------------------------------------------------- Init

\* Most text insertions by the host (typed characters, inserted expressions)
\* in one run.
MaxInputs == 1

StoredBlock(id, text) ==
  BlockNode(id, IF text = <<>> THEN <<>> ELSE <<TextNode(0, text)>>)

InlineX == <<DOLLAR, "x", DOLLAR>>

\* The documents typing is explored from.
TypingDocs == { <<StoredBlock(1, InlineX)>> }

\* An expression the engine fails on.
InlineFails == <<DOLLAR, "!", DOLLAR>>

\* Text in elements the pass skips, and expressions the engine fails on.
SkippedDocs ==
  { <<Element(tag, 1, <<TextNode(0, InlineX)>>)>> : tag \in {"pre", "code"} }
  \cup { <<StoredBlock(1, InlineX), Element(tag, 2, <<TextNode(0, InlineX)>>)>> :
            tag \in {"script", "style"} }
  \cup { <<StoredBlock(1, a)>> :
            a \in { InlineFails \o InlineX,
                    <<DOLLAR, DOLLAR, "!", DOLLAR, DOLLAR>> } }

\* The character that escapes a delimiter in markdown.
BACKSLASH == "\\"

\* Text with an escaped delimiter before and inside an expression.
EscapedDocs ==
  { <<StoredBlock(1, a)>> :
      a \in { <<BACKSLASH>> \o InlineX,
              <<DOLLAR, "x", BACKSLASH, DOLLAR, "x", DOLLAR>> } }

\* One block: an expression, text around an expression, an inline and a
\* display expression side by side.
SingleDocs ==
  { <<StoredBlock(1, a)>> :
      a \in { InlineX, <<"x">> \o InlineX \o <<"x">>,
              InlineX \o <<DOLLAR, DOLLAR, "x", DOLLAR, DOLLAR>> } }

PairTexts == { <<>>, <<"x">>, InlineX }

\* Two blocks, with and without the line break between them.
PairDocs ==
  { <<StoredBlock(1, a), StoredBlock(2, b)>> : a \in PairTexts, b \in PairTexts }
  \cup { <<StoredBlock(1, a), TextNode(0, <<NL>>), StoredBlock(2, b)>> :
           a \in PairTexts, b \in PairTexts }

\* Three blocks, and two blocks with text between them that is not blank.
OtherDocs ==
  { <<StoredBlock(1, a), StoredBlock(2, b), StoredBlock(3, <<"x">>)>> :
      a \in {<<>>, <<"x">>}, b \in {<<>>, <<"x">>} }
  \cup { <<StoredBlock(1, <<>>), TextNode(0, <<"x">>), StoredBlock(2, <<>>)>> }

\* What localStorage (or DEFAULT_HTML) parses to.
StoredDocs == SingleDocs \cup PairDocs \cup OtherDocs \cup SkippedDocs \cup EscapedDocs

RECURSIVE TextOrder(_)
\* The ids of the text nodes in document order.
TextOrder(nodes) ==
  IF nodes = <<>> THEN <<>>
  ELSE LET h == Head(nodes)
       IN (IF h.kind = "text" THEN <<h.id>>
           ELSE IF h.kind = "tok" THEN <<>>
           ELSE TextOrder(h.kids)) \o TextOrder(Tail(nodes))

RECURSIVE Renamed(_, _)
Renamed(nodes, rank) ==
  IF nodes = <<>> THEN <<>>
  ELSE LET h == Head(nodes)
       IN <<IF h.kind = "text" THEN [h EXCEPT !.id = rank[h.id]]
            ELSE IF h.kind = "tok" THEN h
            ELSE [h EXCEPT !.kids = Renamed(h.kids, rank)]>>
          \o Renamed(Tail(nodes), rank)

\* Between handlers a text node is named by its rank in document order: the
\* names carry no information beyond which node is which.
Canon(st) ==
  LET order == TextOrder(st.editor)
      rank == [id \in {order[i] : i \in SeqIdx(order)} |->
                 CHOOSE i \in SeqIdx(order) : order[i] = id]
  IN [st EXCEPT !.editor = Renamed(st.editor, rank),
                !.sel = IF st.sel.kind = "text"
                        THEN TextSel(rank[st.sel.node], st.sel.off) ELSE st.sel,
                !.activeMathEdit =
                   IF st.activeMathEdit \in DOMAIN rank THEN rank[st.activeMathEdit]
                   ELSE IF st.activeMathEdit = 0 THEN 0 ELSE Len(order) + 1]

\* The record of a handler: which one, the key, and the branch that acted.
Event(op, key, by) == [op |-> op, key |-> key, by |-> by]
NoEvent == Event("", "", "")

\* editor.innerHTML = localStorage.getItem(STORAGE_KEY) || DEFAULT_HTML, with
\* the module's variables as declared; no listener is registered yet.
Loaded(doc) ==
  Canon([editor |-> WithNewNodes(doc, <<>>, 0), sel |-> NoSel, activeMathEdit |-> 0,
         mathPassTimer |-> 0, saveTimer |-> 0, timers |-> {}, previewHidden |-> TRUE])

InitWith(docs) ==
  \E doc \in docs :
    /\ editor = Loaded(doc).editor
    /\ sel = NoSel
    /\ activeMathEdit = 0
    /\ mathPassTimer = 0
    /\ saveTimer = 0
    /\ timers = {}
    /\ previewHidden = TRUE
    /\ selPending = FALSE
    /\ budget = IF doc \in TypingDocs THEN MaxInputs ELSE 0
    /\ ev = Event("load", "", "")

Init == InitWith(StoredDocs)

\* What a handler leaves behind: its state, the selectionchange the host queues
\* when the handler moved the selection, and the record of the handler.
Commit(st, pending, e) ==
  LET Put(c) ==
        /\ editor' = c.editor
        /\ sel' = c.sel
        /\ activeMathEdit' = c.activeMathEdit
        /\ mathPassTimer' = c.mathPassTimer
        /\ saveTimer' = c.saveTimer
        /\ timers' = c.timers
        /\ previewHidden' = c.previewHidden
        /\ selPending' = (pending \/ st.sel # sel)
        /\ ev' = e
  IN Put(Canon(st))

\* ---------------------------------------------------------------- actions

\* runMathPass(true); updateMathPreview() at the module's top level.
Startup(st) == updateMathPreview(runMathPass(st, TRUE))

Start ==
  /\ ev.op = "load"
  /\ UNCHANGED budget
  /\ Commit(Startup(Cur), FALSE, Event("start", "", ""))

\* The listeners are registered after the start-up pass.  The host queues
\* selectionchange and the user's events on one task queue: a selectionchange
\* that is pending is delivered before the next user event (timeouts come from
\* another queue and may fire in between).
UserTurn == ev.op # "load" /\ ~selPending

\* The carets the host can place inside the blocks.
Carets(ed) ==
  UNION { {ElemSel(ed[t].id, k) : k \in 0..Len(ed[t].kids)}
          \cup UNION { {TextSel(ed[t].kids[i].id, k) : k \in 0..Len(ed[t].kids[i].val)} :
                       i \in {j \in SeqIdx(ed[t].kids) : ed[t].kids[j].kind = "text"} } :
          t \in {u \in SeqIdx(ed) : ed[u].kind = "block"} }

\* The user moves the caret (a click in text, an unhandled arrow key) or takes
\* the selection out of the editor.
MoveCaret ==
  \E c \in Carets(editor) \cup {OutSel} :
    /\ UserTurn
    /\ c # sel
    /\ UNCHANGED budget
    /\ Commit([Cur EXCEPT !.sel = c], TRUE, NoEvent)

\* The input listener of the editor.
InputListener(st) == updateMathPreview(scheduleSave(scheduleMathPass(st, FALSE)))

\* The host inserts text at the caret of a text node.
InsertText(st, text) ==
  LET v == TextVal(st.editor, st.sel.node)
      v1 == SubSeq(v, 1, st.sel.off) \o text \o SubSeq(v, st.sel.off + 1, Len(v))
  IN [st EXCEPT !.editor = SetTextVal(st.editor, st.sel.node, v1),
                !.sel = TextSel(st.sel.node, st.sel.off + Len(text))]

TypedChars == {DOLLAR, "x"}

\* The user types a character: the host inserts it and fires "input".
Input ==
  \E c \in TypedChars :
    /\ UserTurn
    /\ sel.kind = "text"
    /\ budget > 0
    /\ budget' = budget - 1
    /\ Commit(InputListener(InsertText(Cur, <<c>>)), selPending, Event("input", "", ""))

\* The timeout armed by scheduleMathPass fires.
MathPassTimerFires ==
  \E t \in timers :
    /\ t.fn = "pass"
    /\ UNCHANGED budget
    /\ Commit(runMathPass([Cur EXCEPT !.timers = timers \ {t}], t.aggressive), selPending,
              Event("pass", "", IF t.aggressive THEN "exhaustive" ELSE "interactive"))

\* The timeout armed by scheduleSave fires: localStorage.setItem(...).
SaveTimerFires ==
  \E t \in timers :
    /\ t.fn = "save"
    /\ UNCHANGED budget
    /\ Commit([Cur EXCEPT !.timers = timers \ {t}], selPending, NoEvent)

\* A blur listener that leaves the pass to the timer.
BlurListenerDeferred(st) == hideMathPreview(scheduleMathPass(st, TRUE))

\* The blur listener of the editor.
BlurListener(st) == hideMathPreview(runMathPass(st, TRUE))

Blur ==
  /\ UserTurn
  /\ UNCHANGED budget
  /\ Commit(BlurListener(Cur), selPending,
            Event("blur", "", IF activeMathEdit # 0 THEN "active" ELSE ""))

\* The tokens of the blocks.
Tokens(ed) ==
  UNION { {[parent |-> ed[t].id, idx |-> i] :
             i \in {j \in SeqIdx(ed[t].kids) : ed[t].kids[j].kind = "tok"}} :
          t \in {u \in SeqIdx(ed) : ed[u].kind = "block"} }

\* The token after the replacements of an exhaustive pass before it.
TokenAfterPass(ed, tk) ==
  IF InSkipped(ed, tk.parent) THEN tk
  ELSE [parent |-> tk.parent, idx |-> IndexAfter(KidsOf(ed, tk.parent), tk.idx, TRUE, 0) + 1]

\* The click listener of the editor, for a click that lands on a token.
ClickListener(st, tk, num) ==
  expandMathTokenForEdit(
    IF st.activeMathEdit # 0 THEN runMathPass([st EXCEPT !.activeMathEdit = 0], TRUE) ELSE st,
    IF st.activeMathEdit # 0 THEN TokenAfterPass(st.editor, tk) ELSE tk,
    num)

ClickToken ==
  \E tk \in Tokens(editor), num \in 0..ClickDen :
    /\ UserTurn
    /\ UNCHANGED budget
    /\ Commit(ClickListener(Cur, tk, num), selPending, Event("click", "", ""))

Keys == {"ArrowLeft", "ArrowRight", "Delete", "Backspace"}

KeyDown ==
  \E key \in Keys :
    LET Done(r) ==
          Commit(r.st, selPending,
                 IF r.by = "none" THEN NoEvent ELSE Event("keydown", key, r.by))
    IN /\ UserTurn
       /\ sel.kind \in {"text", "elem"}
       /\ UNCHANGED budget
       /\ Done(KeydownListener(Cur, key))

\* The selectionchange listener of the document.
SelectionChangeListener(st) ==
  LET Preview(st1) ==
        IF st.sel.kind \in {"none", "out"} THEN hideMathPreview(st1)
        ELSE updateMathPreview(st1)
  IN Preview(IF st.sel.kind = "none" THEN st ELSE finalizeMathEditIfNeeded(st))

SelectionChange ==
  /\ selPending
  /\ UNCHANGED budget
  /\ Commit(SelectionChangeListener(Cur), FALSE,
            IF /\ activeMathEdit # 0
               /\ sel.kind # "none"
               /\ (sel.kind # "text" \/ sel.node # activeMathEdit)
            THEN Event("selectionchange", "", "finalize") ELSE NoEvent)

\* insertMathByPrompt() for a prompt answered tex and a confirm answered
\* isBlock: execCommand("insertText") fires "input" before it returns.
insertMathByPrompt(st, tex, isBlock) ==
  LET d == IF isBlock THEN <<DOLLAR, DOLLAR>> ELSE <<DOLLAR>>
      raw == d \o tex \o d
  IN scheduleMathPass(InputListener(InsertText(st, raw)), TRUE)

PromptTexts == {<<"x">>}

InsertMath ==
  \E tex \in PromptTexts, isBlock \in BOOLEAN :
    /\ UserTurn
    /\ sel.kind = "text"
    /\ budget > 0
    /\ budget' = budget - 1
    /\ Commit(insertMathByPrompt(Cur, tex, isBlock), selPending, Event("insertMath", "", ""))

Next ==
  \/ Start
  \/ MoveCaret
  \/ Input
  \/ MathPassTimerFires
  \/ SaveTimerFires
  \/ Blur
  \/ ClickToken
  \/ KeyDown
  \/ SelectionChange
  \/ InsertMath

Spec == Init /\ [][Next]_vars

\* ------------------------------------------------ the pass over any text

RECURSIVE Strings(_)
\* The strings over Chars of length at most n.
Strings(n) ==
  IF n = 0 THEN {<<>>}
  ELSE Strings(n - 1)
       \cup {Append(s, c) : s \in {t \in Strings(n - 1) : Len(t) = n - 1}, c \in Chars}

\* One block holding any stored text.
PassDocs == { <<StoredBlock(1, t)>> : t \in Strings(MaxLen) }

InitPass == InitWith(PassDocs)

\* The start-up pass, then widgets collapsed by clicks and re-materialized when
\* the editor loses focus.
NextPass ==
  \/ Start
  \/ Blur
  \/ ClickToken
  \/ SelectionChange

SpecPass == InitPass /\ [][NextPass]_vars

\* ------------------------------------------------------------- properties

\* The tree without the identities of its text nodes.
RECURSIVE Shape(_)
Shape(nodes) ==
  IF nodes = <<>> THEN <<>>
  ELSE <<[kind |-> Head(nodes).kind, tag |-> Head(nodes).tag, val |-> Head(nodes).val,
          disp |-> Head(nodes).disp, kids |-> Shape(Head(nodes).kids)]>>
       \o Shape(Tail(nodes))

\* A text holds a match of the math pattern whose trimmed body is not empty.
Convertible(v) ==
  \E from \in SeqIdx(v) : Trim(RegexExec(v, from).body) # <<>>

RECURSIVE NoConvertible(_)
NoConvertible(nodes) ==
  \A i \in SeqIdx(nodes) :
    IF nodes[i].kind = "text" THEN ~Convertible(nodes[i].val)
    ELSE Skipped(nodes[i]) \/ NoConvertible(nodes[i].kids)

PassTimers(ts) == {t \in ts : t.fn = "pass"}

\* C1: an interactive pass leaves the text node that holds the caret in the
\* tree, with its value and with the caret where it was, whatever matches the
\* node holds; an exhaustive pass replaces the node when it holds a match and
\* is not in an element the pass skips.
C1_InteractivePassSkipsCaretSegment ==
  sel.kind = "text" =>
    /\ Contains(runMathPass(Cur, FALSE).editor, sel.node)
    /\ TextVal(runMathPass(Cur, FALSE).editor, sel.node) = TextVal(editor, sel.node)
    /\ runMathPass(Cur, FALSE).sel = sel
    /\ (RegexTest(TextVal(editor, sel.node)) /\ ~InSkipped(editor, ParentOf(editor, sel.node)))
         => ~Contains(runMathPass(Cur, TRUE).editor, sel.node)

\* An interactive pass has run while the caret's text node held a complete
\* expression, and the node still holds it.
C1_Witness ==
  /\ ev.op = "pass"
  /\ ev.by = "interactive"
  /\ sel.kind = "text"
  /\ Convertible(TextVal(editor, sel.node))

\* C2: at most one pass is pending and mathPassTimer names it; an input event
\* leaves exactly one pending pass, an interactive one, and a math insertion
\* leaves exactly one, an exhaustive one, whatever was pending before.
C2_OnePendingPass ==
  /\ Cardinality(PassTimers(timers)) <= 1
  /\ \A t \in PassTimers(timers) : t.id = mathPassTimer
  /\ sel.kind = "text" =>
       /\ \A c \in TypedChars :
            PassTimers(InputListener(InsertText(Cur, <<c>>)).timers)
              = {[id |-> InputListener(InsertText(Cur, <<c>>)).mathPassTimer,
                  fn |-> "pass", aggressive |-> FALSE]}
       /\ \A tex \in PromptTexts, isBlock \in BOOLEAN :
            PassTimers(insertMathByPrompt(Cur, tex, isBlock).timers)
              = {[id |-> insertMathByPrompt(Cur, tex, isBlock).mathPassTimer,
                  fn |-> "pass", aggressive |-> TRUE]}

\* A math insertion has replaced the interactive pass its own input event armed:
\* the one pending pass is exhaustive.
C2_Witness ==
  /\ ev.op = "insertMath"
  /\ PassTimers(timers) = {[id |-> mathPassTimer, fn |-> "pass", aggressive |-> TRUE]}

\* C3: when a key is handled while a text node is under active edit and the
\* selection is then outside that node, the selectionchange that follows finds
\* the active edit of that node cleared and its expression re-materialized.
C3_LeavingActiveEditRematerializes ==
  \A key \in Keys :
    (UserTurn /\ sel.kind \in {"text", "elem"} /\ Contains(editor, activeMathEdit)) =>
      LET Left(r) ==
            (r.sel.kind # "text" \/ r.sel.node # activeMathEdit) =>
              /\ r.activeMathEdit # activeMathEdit
              /\ Convertible(TextVal(editor, activeMathEdit))
                   => ~Contains(r.editor, activeMathEdit)
      IN Left(SelectionChangeListener(KeydownListener(Cur, key).st))

\* C4: the blur listener leaves no text node with a convertible match, hides
\* the preview and arms no pass timer: the pass ran inside the listener.
\* (Stated of the listener on every state, the loaded text included: it stands
\* for any text typing may have left when the editor loses focus.)
C4_BlurConvertsEverything ==
  LET After(r) ==
        /\ NoConvertible(r.editor)
        /\ r.previewHidden
        /\ PassTimers(r.timers) = PassTimers(timers)
  IN After(BlurListener(Cur))

\* The editor lost focus while a text node was under active edit, and the node
\* was converted.
C4_Witness ==
  /\ ev.op = "blur"
  /\ ev.by = "active"
  /\ activeMathEdit = 0
  /\ previewHidden
  /\ NoConvertible(editor)

\* C5: a second exhaustive pass right after an exhaustive pass leaves the same
\* sequence of text nodes and tokens, block by block, from every tree: the
\* loaded text, the tree after a pass, the tree with a collapsed token.
C5_ExhaustivePassIdempotent ==
  LET Again(r) == Shape(runMathPass(r, TRUE).editor) = Shape(r.editor)
  IN Again(runMathPass(Cur, TRUE))

\* The start-up pass made a token and left text with a dollar sign next to it.
C5_Witness ==
  /\ ev.op = "start"
  /\ \E tk \in Tokens(editor) :
       \E i \in SeqIdx(KidsOf(editor, tk.parent)) :
         /\ KidsOf(editor, tk.parent)[i].kind = "text"
         /\ DOLLAR \in {KidsOf(editor, tk.parent)[i].val[k] :
                          k \in SeqIdx(KidsOf(editor, tk.parent)[i].val)}

\* C6: after an exhaustive pass, collapsing any token and running an
\* exhaustive pass again gives back the tree: one token with the same tex and
\* display mode in its place and no other node.
C6_CollapseThenMaterialize ==
  (ev.op \in {"start", "blur"} /\ activeMathEdit = 0) =>
    \A tk \in Tokens(editor) :
      LET Back(r) == Shape(r.editor) = Shape(editor)
      IN Back(runMathPass([expandMathTokenWithOffset(Cur, tk, 0)
                             EXCEPT !.activeMathEdit = 0], TRUE))

\* The token that is the caret's next sibling position, if any.
TokenRightOfCaret ==
  CASE sel.kind = "text" ->
         LET kids == KidsOf(editor, ParentOf(editor, sel.node))
             i == IndexOf(editor, sel.node)
         IN IF sel.off = Len(TextVal(editor, sel.node)) /\ i < Len(kids) /\ kids[i + 1].kind = "tok"
            THEN [parent |-> ParentOf(editor, sel.node), idx |-> i + 1] ELSE NoToken
    [] sel.kind = "elem" ->
         LET kids == KidsOf(editor, sel.node)
         IN IF sel.off < Len(kids) /\ kids[sel.off + 1].kind = "tok"
            THEN [parent |-> sel.node, idx |-> sel.off + 1] ELSE NoToken
    [] OTHER -> NoToken

\* The token that is the caret's previous sibling position, if any.
TokenLeftOfCaret ==
  CASE sel.kind = "text" ->
         LET kids == KidsOf(editor, ParentOf(editor, sel.node))
             i == IndexOf(editor, sel.node)
         IN IF sel.off = 0 /\ i > 1 /\ kids[i - 1].kind = "tok"
            THEN [parent |-> ParentOf(editor, sel.node), idx |-> i - 1] ELSE NoToken
    [] sel.kind = "elem" ->
         LET kids == KidsOf(editor, sel.node)
         IN IF sel.off >= 1 /\ kids[sel.off].kind = "tok"
            THEN [parent |-> sel.node, idx |-> sel.off] ELSE NoToken
    [] OTHER -> NoToken

Delimiter(t) == IF t.disp THEN <<DOLLAR, DOLLAR>> ELSE <<DOLLAR>>
RawForm(t) == Delimiter(t) \o t.val \o Delimiter(t)

\* In st the token tk of the current tree is replaced by one new text node
\* holding text, that node is the active edit and holds the caret at offset off;
\* every other node is as it was.
CollapsedTo(st, tk, text, off) ==
  /\ st.activeMathEdit # 0
  /\ st.activeMathEdit \notin TextIdsOf(editor)
  /\ st.editor = SetKids(editor, tk.parent,
                         ReplaceAt(KidsOf(editor, tk.parent), tk.idx,
                                   <<TextNode(st.activeMathEdit, text)>>))
  /\ st.sel = TextSel(st.activeMathEdit, off)

\* C7: ArrowRight with a token right of the caret, and ArrowLeft with a token
\* left of it, is prevented and replaces the token by a text node with its raw
\* form, under active edit, the caret behind the opening delimiter (before the
\* closing one).
C7_ArrowEntersWidget ==
  /\ TokenRightOfCaret # NoToken =>
       LET t == TokenAt(editor, TokenRightOfCaret)
           Entered(r) ==
             /\ r.prevented
             /\ r.by = "arrow"
             /\ CollapsedTo(r.st, TokenRightOfCaret, RawForm(t), IF t.disp THEN 2 ELSE 1)
       IN Entered(KeydownListener(Cur, "ArrowRight"))
  /\ TokenLeftOfCaret # NoToken =>
       LET t == TokenAt(editor, TokenLeftOfCaret)
           Entered(r) ==
             /\ r.prevented
             /\ r.by = "arrow"
             /\ CollapsedTo(r.st, TokenLeftOfCaret, RawForm(t),
                            Len(RawForm(t)) - (IF t.disp THEN 2 ELSE 1))
       IN Entered(KeydownListener(Cur, "ArrowLeft"))

\* ArrowRight has entered a display expression: the caret is behind "$$".
C7_Witness ==
  /\ ev.op = "keydown"
  /\ ev.key = "ArrowRight"
  /\ ev.by = "arrow"
  /\ sel = TextSel(activeMathEdit, 2)
  /\ TextVal(editor, activeMathEdit) = <<DOLLAR, DOLLAR, "x", DOLLAR, DOLLAR>>

SaveArmed(st) == \E t \in st.timers : t.fn = "save" /\ t.id = st.saveTimer

\* C8: Delete with a token right of the caret, and Backspace with a token left
\* of it, is prevented and replaces the token by a text node with its raw form
\* less the first (last) character, the caret at offset 0 (at the end); the
\* save timer is armed and no block is merged.
C8_DeleteEntersWidget ==
  /\ TokenRightOfCaret # NoToken =>
       LET t == TokenAt(editor, TokenRightOfCaret)
           Deleted(r) ==
             /\ r.prevented
             /\ r.by = "token"
             /\ CollapsedTo(r.st, TokenRightOfCaret, Tail(RawForm(t)), 0)
             /\ SaveArmed(r.st)
       IN Deleted(KeydownListener(Cur, "Delete"))
  /\ TokenLeftOfCaret # NoToken =>
       LET t == TokenAt(editor, TokenLeftOfCaret)
           Deleted(r) ==
             /\ r.prevented
             /\ r.by = "token"
             /\ CollapsedTo(r.st, TokenLeftOfCaret,
                            SubSeq(RawForm(t), 1, Len(RawForm(t)) - 1), Len(RawForm(t)) - 1)
             /\ SaveArmed(r.st)
       IN Deleted(KeydownListener(Cur, "Backspace"))

\* Backspace behind the last token of a block that has a block after it: the
\* token's text has lost its last character and both blocks are still there.
C8_Witness ==
  /\ ev.op = "keydown"
  /\ ev.key = "Backspace"
  /\ ev.by = "token"
  /\ sel = TextSel(activeMathEdit, 2)
  /\ TextVal(editor, activeMathEdit) = <<DOLLAR, "x">>
  /\ Len(editor) >= 2
  /\ IndexOf(editor, activeMathEdit) = Len(KidsOf(editor, ParentOf(editor, activeMathEdit)))

\* Only blank text lies between top-level nodes a and b.
BlankBetween(a, b) ==
  \A q \in (a + 1)..(b - 1) : editor[q].kind = "text" /\ Trim(editor[q].val) = <<>>

\* C9: Backspace with the caret at the start of a block whose previous
\* non-blank sibling is a block appends the block's children to the previous
\* block, removes the block, changes nothing else and puts the caret in the
\* previous block behind its former children.
C9_BackspaceMergesIntoPrevious ==
  \A c \in SeqIdx(editor), p \in SeqIdx(editor) :
    ( /\ p < c
      /\ editor[c].kind = "block"
      /\ editor[p].kind = "block"
      /\ BlankBetween(p, c)
      /\ sel = ElemSel(editor[c].id, 0) ) =>
      LET Merged(st) ==
            /\ st.editor = RemoveAt([editor EXCEPT ![p].kids = editor[p].kids \o editor[c].kids], c)
            /\ st.sel = ElemSel(editor[p].id, Len(editor[p].kids))
      IN Merged(KeydownListener(Cur, "Backspace").st)

C11_UnhandledMergeIsNoOp ==
  (UserTurn /\ sel.kind \in {"text", "elem"}) =>
    LET NoOp(r) == r.ret \/ r.st = Cur
    IN /\ NoOp(mergeWithNextEditorBlock(Cur))
       /\ NoOp(mergeWithPreviousEditorBlock(Cur))

\* C12: a handler that has changed the tree leaves the save timer armed.
C12_MutationArmsSave ==
  LET Saved(st) == st.editor = editor \/ SaveArmed(st)
  IN /\ Saved(SelectionChangeListener(Cur))
     /\ \A aggressive \in BOOLEAN : Saved(runMathPass(Cur, aggressive))
     /\ UserTurn =>
          /\ Saved(BlurListener(Cur))
          /\ \A tk \in Tokens(editor), num \in 0..ClickDen :
               Saved(ClickListener(Cur, tk, num))
          /\ sel.kind \in {"text", "elem"} =>
               \A key \in Keys : Saved(KeydownListener(Cur, key).st)

\* The values of the text nodes of the tree.
TextValues(ed) ==
  UNION { IF ed[t].kind = "text" THEN {ed[t].val}
          ELSE {ed[t].kids[i].val :
                  i \in {j \in SeqIdx(ed[t].kids) : ed[t].kids[j].kind = "text"}} :
          t \in SeqIdx(ed) }

RECURSIVE MatchesFrom(_, _)
\* The matches the loop over regex.exec visits from position `from` on.
MatchesFrom(v, from) ==
  LET Rest(m) == IF m = NoMatch THEN <<>> ELSE <<m>> \o MatchesFrom(v, m.end + 1)
  IN Rest(RegexExec(v, from))

Matches(v) == MatchesFrom(v, 1)

\* The body of a match holds a character that is not white space.
HasExpression(m) == \E k \in SeqIdx(m.body) : ~IsSpace(m.body[k])

RECURSIVE LiteralFrom(_, _, _)
\* The characters of v from position p on that lie in no match with an
\* expression.
LiteralFrom(v, ms, p) ==
  IF p > Len(v) THEN <<>>
  ELSE (IF \E n \in SeqIdx(ms) : HasExpression(ms[n]) /\ ms[n].start <= p /\ p <= ms[n].end
        THEN <<>> ELSE <<v[p]>>)
       \o LiteralFrom(v, ms, p + 1)

RECURSIVE TextConcat(_)
\* The values of the text nodes of a fragment, concatenated.
TextConcat(f) ==
  IF f = <<>> THEN <<>>
  ELSE (IF Head(f).kind = "text" THEN Head(f).val ELSE <<>>) \o TextConcat(Tail(f))

\* C13: no token has an empty tex, and the fragment a pass builds from any
\* text holds, as text and in order, every character outside the matches that
\* have an expression: a run such as "$ $" stays as it is.
C13_EmptyExpressionStaysText ==
  /\ \A tk \in Tokens(editor) : TokenAt(editor, tk).val # <<>>
  /\ \A v \in TextValues(editor) :
       /\ \A i \in SeqIdx(Fragment(v)) :
            Fragment(v)[i].kind = "tok" => Fragment(v)[i].val # <<>>
       /\ TextConcat(Fragment(v)) = LiteralFrom(v, Matches(v), 1)
       /\ Cardinality({i \in SeqIdx(Fragment(v)) : Fragment(v)[i].kind = "tok"})
            = Cardinality({n \in SeqIdx(Matches(v)) : HasExpression(Matches(v)[n])})

\* The start-up pass has made a token and left the run "$ $" as a text node.
C13_Witness ==
  /\ ev.op = "start"
  /\ Tokens(editor) # {}
  /\ <<DOLLAR, SP, DOLLAR>> \in TextValues(editor)

\* The block form spans positions i..j of v: "$$", a body, "$$".
BlockAt(v, i, j) ==
  /\ i >= 1 /\ j <= Len(v) /\ j >= i + 4
  /\ v[i] = DOLLAR /\ v[i + 1] = DOLLAR /\ v[j - 1] = DOLLAR /\ v[j] = DOLLAR

\* The inline form spans positions i..j of v: "$", a body without "$" and
\* newline, "$".
InlineAt(v, i, j) ==
  /\ i >= 1 /\ j <= Len(v) /\ j >= i + 2
  /\ v[i] = DOLLAR /\ v[j] = DOLLAR
  /\ \A k \in (i + 1)..(j - 1) : v[k] # DOLLAR /\ v[k] # NL

CanStart(v, i) == \E j \in i..Len(v) : BlockAt(v, i, j) \/ InlineAt(v, i, j)

\* The matches ms of v are the leftmost ones in turn, do not overlap, take the
\* block form where it matches and end at the first closing delimiter.
ScansLeftToRight(v, ms) ==
  /\ \A n \in SeqIdx(ms) :
       LET m == ms[n]
           prevEnd == IF n = 1 THEN 0 ELSE ms[n - 1].end
       IN /\ m.start > prevEnd
          /\ \A p \in (prevEnd + 1)..(m.start - 1) : ~CanStart(v, p)
          /\ IF m.block
             THEN /\ BlockAt(v, m.start, m.end)
                  /\ \A j \in m.start..(m.end - 1) : ~BlockAt(v, m.start, j)
                  /\ m.body = SubSeq(v, m.start + 2, m.end - 2)
             ELSE /\ InlineAt(v, m.start, m.end)
                  /\ \A j \in m.start..Len(v) : ~BlockAt(v, m.start, j)
                  /\ m.body = SubSeq(v, m.start + 1, m.end - 1)
  /\ \A p \in ((IF ms = <<>> THEN 0 ELSE ms[Len(ms)].end) + 1)..Len(v) : ~CanStart(v, p)

\* C14: for every text the scanner's matches are the leftmost ones in turn,
\* do not overlap, try "$$..$$" before "$..$" and end at the first closing
\* delimiter; "$x" has no match; "$$\n1+1\n$$" has one, a display one whose
\* trimmed body is "1+1".
C14_ScannerMatches ==
  /\ \A v \in TextValues(editor) : ScansLeftToRight(v, Matches(v))
  /\ Matches(<<DOLLAR, "x">>) = <<>>
  /\ Shape(Fragment(<<DOLLAR, DOLLAR, NL, "1", "+", "1", NL, DOLLAR, DOLLAR>>))
       = Shape(<<createMathToken(<<"1", "+", "1">>, TRUE)>>)

\* The start-up pass has made a display token whose tex holds a newline.
C14_Witness ==
  /\ ev.op = "start"
  /\ \E tk \in Tokens(editor) :
       /\ TokenAt(editor, tk).disp
       /\ \E k \in SeqIdx(TokenAt(editor, tk).val) : TokenAt(editor, tk).val[k] = NL

\* A token, or an element whose text is code, script or style.
WidgetOrCode(h) ==
  h.kind = "tok" \/ (h.kind = "block" /\ h.tag \in {"code", "pre", "script", "style"})

RECURSIVE Protected(_)
\* The tokens and code elements of the tree, the outermost ones, in document
\* order, each with all it holds.
Protected(nodes) ==
  IF nodes = <<>> THEN <<>>
  ELSE (IF WidgetOrCode(Head(nodes)) THEN <<Head(nodes)>>
        ELSE Protected(Head(nodes).kids)) \o Protected(Tail(nodes))

RECURSIVE IsSubseq(_, _)
\* a is b with some elements left out.
IsSubseq(a, b) ==
  IF a = <<>> THEN TRUE
  ELSE IF b = <<>> THEN FALSE
  ELSE IF Head(a) = Head(b) THEN IsSubseq(Tail(a), Tail(b))
  ELSE IsSubseq(a, Tail(b))

\* C15: a pass of either kind leaves every token and every code, pre, script
\* and style element as it was, with all the text it holds; what a pass adds
\* are tokens outside of them, and no token holds a token.
C15_PassSkipsWidgetsAndCode ==
  \A aggressive \in BOOLEAN :
    LET After(before, after) ==
          /\ IsSubseq(before, after)
          /\ \A i \in SeqIdx(after) :
               /\ after[i].kind = "block" =>
                    \E j \in SeqIdx(before) : before[j] = after[i]
               /\ after[i].kind = "tok" =>
                    \A k \in SeqIdx(after[i].kids) : after[i].kids[k].kind = "text"
    IN After(Protected(editor), Protected(runMathPass(Cur, aggressive).editor))

\* The start-up pass has made a token and has left the expression in a code
\* element, or the raw form inside a token, as text.
C15_Witness ==
  /\ ev.op = "start"
  /\ Tokens(editor) # {}
  /\ \E i \in SeqIdx(Protected(editor)) :
       \E k \in SeqIdx(Protected(editor)[i].kids) :
         /\ Protected(editor)[i].kids[k].kind = "text"
         /\ Convertible(Protected(editor)[i].kids[k].val)

\* C16: a token made for an expression the engine fails on carries the tex and
\* the display flag and holds the raw form as its text; the fragment of any
\* text holds one token for every match with an expression, in order, whether
\* the engine fails on it or not.
C16_RenderFailureFallsBack ==
  /\ \A tk \in Tokens(editor) :
       RenderThrows(TokenAt(editor, tk).val) =>
         TokenAt(editor, tk).kids = <<TextNode(0, RawForm(TokenAt(editor, tk)))>>
  /\ \A v \in TextValues(editor) :
       LET Same(toks, ms) ==
             /\ Len(toks) = Len(ms)
             /\ \A n \in SeqIdx(toks) :
                  /\ toks[n].val = Trim(ms[n].body)
                  /\ toks[n].disp = ms[n].block
                  /\ RenderThrows(toks[n].val) =>
                       toks[n].kids = <<TextNode(0, RawForm(toks[n]))>>
       IN Same(SelectSeq(Fragment(v), isMathTokenNode), SelectSeq(Matches(v), HasExpression))

\* The start-up pass has made a token for an expression the engine fails on
\* and, after it, a token for the next expression.
C16_Witness ==
  /\ ev.op = "start"
  /\ \E tk \in Tokens(editor) :
       /\ RenderThrows(TokenAt(editor, tk).val)
       /\ TokenAt(editor, tk).kids # <<>>
       /\ [parent |-> tk.parent, idx |-> tk.idx + 1] \in Tokens(editor)

\* C17: for a caret anywhere in the tree, a refresh of the preview leaves the
\* panel shown exactly when the caret is in a text node and its offset lies
\* within the span of a match of the node's value that has an expression.
C17_PreviewShownInsideMatch ==
  \A caret \in Carets(editor) :
    LET Shown(r) ==
          ~r.previewHidden <=>
            /\ caret.kind = "text"
            /\ \E n \in SeqIdx(Matches(TextVal(editor, caret.node))) :
                 LET m == Matches(TextVal(editor, caret.node))[n]
                 IN HasExpression(m) /\ m.start - 1 <= caret.off /\ caret.off <= m.end
    IN Shown(updateMathPreview([Cur EXCEPT !.sel = caret]))

RECURSIVE Leaves(_)
\* The tokens and text nodes of the tree in document order.
Leaves(nodes) ==
  IF nodes = <<>> THEN <<>>
  ELSE (IF Head(nodes).kind \in {"text", "tok"} THEN <<Head(nodes)>>
        ELSE Leaves(Head(nodes).kids)) \o Leaves(Tail(nodes))

\* C18: the export writes "\n\n$$\n" tex "\n$$\n\n" for every display token
\* of the tree and "$" tex "$" for every inline token.
C18_ExportSerializesTokens ==
  LET Serialized(leaves, pieces) ==
        /\ Len(pieces) = Len(leaves)
        /\ \A i \in SeqIdx(leaves) :
             leaves[i].kind = "tok" =>
               pieces[i] = IF leaves[i].disp
                           THEN <<NL, NL, DOLLAR, DOLLAR, NL>> \o leaves[i].val
                                \o <<NL, DOLLAR, DOLLAR, NL, NL>>
                           ELSE <<DOLLAR>> \o leaves[i].val \o <<DOLLAR>>
  IN Serialized(Leaves(editor), exportMarkdown(editor))

\* C19: a click on a token at the fraction num / ClickDen of its width leaves
\* the raw form as text with the caret at round(fraction * length), the
\* fraction clamped to [0, 1]; the middle of "$ab$" gives 2, its right edge 4.
C19_ClickMapsToOffset ==
  /\ UserTurn =>
       \A tk \in Tokens(editor), num \in (0 - 1)..(ClickDen + 1) :
         LET raw == RawForm(TokenAt(editor, tk))
             clamped == IF num < 0 THEN 0 ELSE IF num > ClickDen THEN ClickDen ELSE num
             expected == CHOOSE k \in 0..Len(raw) :
                           /\ 2 * k * ClickDen - ClickDen <= 2 * clamped * Len(raw)
                           /\ 2 * clamped * Len(raw) < 2 * k * ClickDen + ClickDen
             At(r) ==
               /\ r.activeMathEdit # 0
               /\ r.sel = TextSel(r.activeMathEdit, expected)
               /\ TextVal(r.editor, r.activeMathEdit) = raw
         IN At(ClickListener(Cur, tk, num))
  /\ \A num \in {n \in 0..ClickDen : 2 * n = ClickDen \/ n = ClickDen} :
       LET Offset(r) == r.sel.off = IF num = ClickDen THEN 4 ELSE 2
       IN Offset(expandMathTokenForEdit(
                   [Cur EXCEPT !.editor = <<BlockNode(1, <<createMathToken(<<"a", "b">>, FALSE)>>)>>,
                               !.sel = NoSel, !.activeMathEdit = 0],
                   [parent |-> 1, idx |-> 1], num))

\* A token with a raw form of odd length has been clicked in the middle: the
\* caret is at the offset rounded up.
C19_Witness ==
  /\ ev.op = "click"
  /\ sel.kind = "text"
  /\ sel.node = activeMathEdit
  /\ Len(TextVal(editor, sel.node)) = 5
  /\ sel.off = 3

\* The nearest sibling of child i of kids in the direction that is not a text
\* node of white space only (or of no characters), 0 when there is none.
NearestNonBlank(kids, i, direction) ==
  LET cand == {j \in SeqIdx(kids) :
                 /\ IF direction = "next" THEN j > i ELSE j < i
                 /\ ~(kids[j].kind = "text" /\ \A k \in SeqIdx(kids[j].val) : IsSpace(kids[j].val[k]))}
  IN IF cand = {} THEN 0 ELSE IF direction = "next" THEN Min(cand) ELSE Max(cand)

\* C20: for a caret in a text node, adjacentMathToken gives the token that is
\* the nearest non-blank sibling in the direction when the caret is at that
\* edge of the node, and none otherwise.
C20_AdjacentSkipsBlankText ==
  sel.kind = "text" =>
    \A direction \in {"next", "prev"} :
      LET kids == KidsOf(editor, ParentOf(editor, sel.node))
          edge == IF direction = "next" THEN Len(TextVal(editor, sel.node)) ELSE 0
          j == NearestNonBlank(kids, IndexOf(editor, sel.node), direction)
      IN adjacentMathToken(Cur, direction) =
           IF sel.off = edge /\ j # 0 /\ kids[j].kind = "tok"
           THEN [parent |-> ParentOf(editor, sel.node), idx |-> j]
           ELSE NoToken

\* The "$" at position p of v is preceded by a backslash.
Escaped(v, p) == p > 1 /\ v[p - 1] = BACKSLASH

\* The delimiters of match m of v are not escaped.
UnescapedDelimiters(v, m) ==
  /\ ~Escaped(v, m.start)
  /\ ~Escaped(v, IF m.block THEN m.end - 1 ELSE m.end)

\* C21: no match of the pass's scan or of the preview's scan opens or closes
\* at a "$" that a backslash precedes.
C21_EscapedDelimiterNeverMatches ==
  /\ \A v \in TextValues(editor) :
       \A n \in SeqIdx(Matches(v)) : UnescapedDelimiters(v, Matches(v)[n])
  /\ \A caret \in {c \in Carets(editor) : c.kind = "text"} :
       LET Unescaped(m) ==
             m # NoMatch => UnescapedDelimiters(TextVal(editor, caret.node), m)
       IN Unescaped(getActiveMathSnippet([Cur EXCEPT !.sel = caret]))

\* s without the white space at its ends.
Strip(s) ==
  LET ns == {k \in SeqIdx(s) : ~IsSpace(s[k])}
  IN IF ns = {} THEN <<>> ELSE SubSeq(s, Min(ns), Max(ns))

RECURSIVE TrimmedInside(_, _, _)
\* v from position p on, the white space directly inside the delimiters of
\* every match that has an expression left out.
TrimmedInside(v, ms, p) ==
  IF p > Len(v) THEN <<>>
  ELSE IF \E n \in SeqIdx(ms) : HasExpression(ms[n]) /\ ms[n].start = p
  THEN LET m == ms[CHOOSE n \in SeqIdx(ms) : ms[n].start = p]
           d == IF m.block THEN <<DOLLAR, DOLLAR>> ELSE <<DOLLAR>>
       IN d \o Strip(m.body) \o d \o TrimmedInside(v, ms, m.end + 1)
  ELSE <<v[p]>> \o TrimmedInside(v, ms, p + 1)

RECURSIVE RawText(_)
\* The text nodes' values and the tokens' raw forms in document order.
RawText(nodes) ==
  IF nodes = <<>> THEN <<>>
  ELSE LET h == Head(nodes)
       IN (IF h.kind = "text" THEN h.val
           ELSE IF h.kind = "tok" THEN RawForm(h)
           ELSE RawText(h.kids)) \o RawText(Tail(nodes))

RECURSIVE ExpectedRawText(_, _, _, _)
\* The raw text a pass has to leave: that of the tree, trimmed inside the
\* delimiters in the text nodes the pass converts (those outside tokens and
\* code, the caret's node excepted unless the pass is exhaustive).
ExpectedRawText(nodes, inCode, aggressive, active) ==
  IF nodes = <<>> THEN <<>>
  ELSE LET h == Head(nodes)
       IN (IF h.kind = "text"
           THEN IF ~inCode /\ (aggressive \/ h.id # active)
                THEN TrimmedInside(h.val, Matches(h.val), 1) ELSE h.val
           ELSE IF h.kind = "tok" THEN RawForm(h)
           ELSE ExpectedRawText(h.kids, inCode \/ WidgetOrCode(h), aggressive, active))
          \o ExpectedRawText(Tail(nodes), inCode, aggressive, active)

RECURSIVE Kept(_, _, _, _)
\* The tokens and the text nodes a pass does not rewrite, in document order:
\* a text node with a match is rewritten, also when the match has no
\* expression (the node is then replaced by a text node of the same value).
Kept(nodes, inCode, aggressive, active) ==
  IF nodes = <<>> THEN <<>>
  ELSE LET h == Head(nodes)
       IN (IF h.kind = "text"
           THEN IF ~inCode /\ (aggressive \/ h.id # active) /\ Matches(h.val) # <<>>
                THEN <<>> ELSE <<h>>
           ELSE IF h.kind = "tok" THEN <<h>>
           ELSE Kept(h.kids, inCode \/ WidgetOrCode(h), aggressive, active))
          \o Kept(Tail(nodes), inCode, aggressive, active)

\* C22: a pass of either kind leaves the raw text of the document as it was
\* but for the white space directly inside the delimiters of the expressions
\* it converts; the nodes it does not rewrite stay, in order, and the elements
\* stay where they were.
C22_PassPreservesRawText ==
  \A aggressive \in BOOLEAN :
    LET active == IF aggressive THEN 0 ELSE currentSelectionTextNode(Cur)
        Preserved(after) ==
          /\ RawText(after) = ExpectedRawText(editor, FALSE, aggressive, active)
          /\ IsSubseq(Kept(editor, FALSE, aggressive, active), Leaves(after))
          /\ Len(after) >= Len(editor)
          /\ [t \in SeqIdx(SelectSeq(after, LAMBDA n : n.kind = "block")) |->
                [id |-> SelectSeq(after, LAMBDA n : n.kind = "block")[t].id,
                 tag |-> SelectSeq(after, LAMBDA n : n.kind = "block")[t].tag]]
             = [t \in SeqIdx(SelectSeq(editor, LAMBDA n : n.kind = "block")) |->
                [id |-> SelectSeq(editor, LAMBDA n : n.kind = "block")[t].id,
                 tag |-> SelectSeq(editor, LAMBDA n : n.kind = "block")[t].tag]]
    IN Preserved(runMathPass(Cur, aggressive).editor)

\* The start-up pass has converted two expressions and has left text.
C22_Witness ==
  /\ ev.op = "start"
  /\ Cardinality(Tokens(editor)) >= 2
  /\ \E v \in TextValues(editor) : v # <<>>

====
